---- MODULE Spec2Model ----
(***************************************************************************)
(* Model of rpctest.VotingWallet (rpctest/votingwallet.go): the wallet     *)
(* state (utxos, tickets, maturingVotes, limitNbVotes), the two bounded    *)
(* notification channels, the single notification worker with its two      *)
(* handlers, the LimitNbVotes setter and the GenerateBlocks driver,        *)
(* together with the part of the node the wallet talks to (best height,    *)
(* stake difficulty, mempool, live ticket pool).                           *)
(***************************************************************************)
EXTENDS Integers, Sequences, FiniteSets, TLC

(***************************************************************************)
(* Parameters and bounds                                                   *)
(***************************************************************************)

\* hn.ActiveNet: the chain parameters the wallet reads.  Small values with
\* the same relations as simnet.
ActiveNet ==
    [ TicketsPerBlock       |-> 2,
      TicketMaturity        |-> 1,
      CoinbaseMaturity      |-> 1,
      StakeValidationHeight |-> 5,
      MinimumStakeDiff      |-> 2,
      StakeDiffWindowSize   |-> 5,
      SubsidyReductionInterval |-> 4 ]

commitAmountMultiplier == 4

bufferLen == 20

\* Blocks the node connects in a run.
MaxHeight == 6

\* The values of nb handed to GenerateBlocks.
NbChoices == {1, 2}

\* Notifications the worker lets wait in each channel: the node connects the
\* next block when fewer are waiting.
MaxPending == 1

\* Exceptional events in a run: rpc errors, signing errors, timeouts of
\* GenerateBlocks (the worker being late by the whole timeout) and the
\* cancellation of the context.
MaxFaults == 1

\* The events delivered to each queue where the queues are filled: one more
\* than a queue holds.
MaxDelivered == 21

\* Tickets of other wallets in the node's live ticket pool.
ForeignIds == {1}

\* Stake difficulties the node may retarget to (header.SBits).
StakeDiffs == {6, 7}

(***************************************************************************)
(* State                                                                   *)
(***************************************************************************)
VARIABLES
    utxos,                   \* w.utxos: sequence of utxoInfo
    tickets,                 \* w.tickets: ticket hash -> ticketInfo
    maturingVotes,           \* w.maturingVotes: height -> sequence of utxoInfo
    limitNbVotes,            \* w.limitNbVotes
    blockConnectedNtfnChan,  \* w.blockConnectedNtfnChan (FIFO)
    winningTicketsNtfnChan,  \* w.winningTicketsNtfnChan (FIFO)
    worker,                  \* handleNotifications goroutine: idle, running, stopped, panicked
    ctxDone,                 \* ctx.Done() is closed
    node,                    \* the miner node: bestHeight, sbits, mempool, live tickets
    gen,                     \* the running GenerateBlocks call
    faults,                  \* exceptional events so far
    last,                    \* the last operation executed and the wallet state before it
    voteFrame                \* the locals of the running handleWinningTicketsNtfn

vars == << utxos, tickets, maturingVotes, limitNbVotes, blockConnectedNtfnChan,
           winningTicketsNtfnChan, worker, ctxDone, node, gen, faults, last,
           voteFrame >>

walletVars == << utxos, tickets, maturingVotes, limitNbVotes >>

(***************************************************************************)
(* Pure helpers                                                            *)
(***************************************************************************)

\* Transaction hashes are collision free digests of the transaction: the
\* digest of tx is represented by the term [of |-> tx].
TxHash(tx) == [of |-> tx]

FundingTx == [type |-> "fund"]

Min(a, b) == IF a < b THEN a ELSE b

RECURSIVE SumAmounts(_)
SumAmounts(s) ==
    IF s = << >> THEN 0 ELSE Head(s).amount + SumAmounts(Tail(s))

RECURSIVE SumOver(_, _)
SumOver(f, S) ==
    IF S = {} THEN 0
    ELSE LET x == CHOOSE y \in S : TRUE IN f[x] + SumOver(f, S \ {x})

Range(s) == { s[i] : i \in DOMAIN s }

\* ticketPurchaseStartHeight one block too early.
ticketPurchaseStartHeightEarly(net) ==
    net.StakeValidationHeight - net.TicketMaturity - 3

\* ticketPurchaseStartHeight
ticketPurchaseStartHeight(net) ==
    net.StakeValidationHeight - net.TicketMaturity - 2

\* requiredTicketCount leaving out one of the two extra blocks.
requiredTicketCountShort(net) ==
    (net.CoinbaseMaturity + net.TicketMaturity + 1) * net.TicketsPerBlock

\* CoinbaseMaturity, TicketMaturity and TicketsPerBlock are uint16 fields of
\* chaincfg.Params: their sums and products are computed modulo 2^16.
Uint16 == 65536

\* requiredTicketCount: the product is computed in uint16 and converted to
\* int afterwards.
requiredTicketCount(net) ==
    (((net.CoinbaseMaturity + net.TicketMaturity + 2) % Uint16)
       * net.TicketsPerBlock) % Uint16

commitAmount == ActiveNet.MinimumStakeDiff * commitAmountMultiplier

\* The snapshot of the wallet state kept in last.pre.
Wallet ==
    [ utxos |-> utxos, tickets |-> tickets, maturingVotes |-> maturingVotes,
      limitNbVotes |-> limitNbVotes ]

NoInfo == [ arg |-> 0, built |-> << >>, accepted |-> {} ]

Info(arg, built, accepted) == [ arg |-> arg, built |-> built, accepted |-> accepted ]

\* No handleWinningTicketsNtfn is running.  written: the values stored in
\* w.limitNbVotes so far; observed: the last of them the worker has read.
NoFrame ==
    [ pc |-> "idle",
      ntfn |-> [ blockHash |-> 0, blockHeight |-> 0, winningTickets |-> << >> ],
      cap |-> 0, i |-> 0, votes |-> << >>,
      observed |-> ActiveNet.TicketsPerBlock,
      written |-> { ActiveNet.TicketsPerBlock } ]

\* The outpoints that the ticket transactions built by op spend.
TicketInputs(op, built) ==
    IF op = "handleBlockConnectedNtfn"
    THEN [ i \in DOMAIN built |-> built[i].in ]
    ELSE << >>

\* The record of the operation op; spent is the history of the inputs of
\* every ticket transaction built so far.
Did(op, outcome, info) ==
    [ op |-> op, outcome |-> outcome, pre |-> Wallet, info |-> info,
      spent |-> last.spent \o TicketInputs(op, info.built) ]

(***************************************************************************)
(* Construction and Start                                                  *)
(***************************************************************************)

\* State after NewVotingWallet.
\* The state NewVotingWallet returns, next to a node whose ticket pool holds
\* the tickets `foreign` of other wallets, f faults having been spent.
NewVotingWallet(foreign, f) ==
    /\ utxos = << >>
    /\ tickets = << >>
    /\ maturingVotes = << >>
    /\ limitNbVotes = ActiveNet.TicketsPerBlock
    /\ blockConnectedNtfnChan = << >>
    /\ winningTicketsNtfnChan = << >>
    /\ worker = "idle"
    /\ ctxDone = FALSE
    /\ node = [ bestHeight |-> 0,
                sbits |-> 6,
                mempoolTickets |-> {},
                mempoolVotes |-> {},
                live |-> {},
                foreign |-> foreign,
                drawHeight |-> 0 ]
    /\ gen = [ pc |-> "idle", nb |-> 0, i |-> 0, startHeight |-> 0,
               nbVotes |-> 0, nbTickets |-> 0, hashes |-> << >>,
               genHeight |-> 0, needsVotes |-> FALSE, needsTickets |-> FALSE,
               polled |-> FALSE, seen |-> << 0, 0 >>, err |-> "nil",
               notGot |-> << >> ]
    /\ faults = f
    /\ last = [ op |-> "NewVotingWallet", outcome |-> "ok",
                pre |-> [ utxos |-> << >>, tickets |-> << >>,
                          maturingVotes |-> << >>,
                          limitNbVotes |-> ActiveNet.TicketsPerBlock ],
                info |-> NoInfo, spent |-> << >> ]
    /\ voteFrame = NoFrame

Init == NewVotingWallet(ForeignIds, 0)

\* The utxos Start records: the first nbOutputs outputs of the funding tx.
StartUtxosOn(net) ==
    LET value == net.MinimumStakeDiff * commitAmountMultiplier
        nbOutputs == requiredTicketCount(net)
    IN [ i \in 1..nbOutputs |->
           [ outpoint |-> [ Hash |-> TxHash(FundingTx), Index |-> i - 1,
                            Tree |-> "regular" ],
             amount |-> value ] ]

StartUtxos == StartUtxosOn(ActiveNet)

\* Start, hn.SendOutputs succeeding: funds the wallet and launches
\* handleNotifications.
StartFunded ==
    /\ worker = "idle"
    /\ utxos' = StartUtxos
    /\ worker' = "running"
    /\ last' = Did("Start", "ok", NoInfo)
    /\ UNCHANGED << tickets, maturingVotes, limitNbVotes, blockConnectedNtfnChan,
                    winningTicketsNtfnChan, ctxDone, node, gen, faults,
                    voteFrame >>

\* Start, hn.SendOutputs failing: the error is returned, nothing is launched.
StartFails ==
    /\ worker = "idle"
    /\ faults < MaxFaults
    /\ faults' = faults + 1
    /\ last' = Did("Start", "error", NoInfo)
    /\ UNCHANGED << utxos, worker, tickets, maturingVotes, limitNbVotes,
                    blockConnectedNtfnChan, winningTicketsNtfnChan, ctxDone,
                    node, gen,
                    voteFrame >>

Start == StartFunded \/ StartFails

(***************************************************************************)
(* LimitNbVotes                                                            *)
(***************************************************************************)

\* LimitNbVotesError comparing against the network's votes per block instead
\* of the current limit.
LimitNbVotesErrorAgainstMax(cur, newLimit) ==
    IF newLimit < 0 THEN "cannot use negative number of votes"
    ELSE IF newLimit > ActiveNet.TicketsPerBlock
    THEN "cannot increase number of votes"
    ELSE "nil"

\* The error LimitNbVotes(newLimit) returns with the limit at cur ("nil": none).
LimitNbVotesError(cur, newLimit) ==
    IF newLimit < 0 THEN "cannot use negative number of votes"
    ELSE IF newLimit > cur THEN "cannot increase number of votes"
    ELSE "nil"

\* The limit after LimitNbVotes(newLimit) with the limit at cur.
LimitNbVotesResult(cur, newLimit) ==
    IF LimitNbVotesError(cur, newLimit) = "nil" THEN newLimit ELSE cur

\* The caller's thread runs Start, LimitNbVotes and GenerateBlocks one after
\* the other, so LimitNbVotes is not called while GenerateBlocks runs.
LimitNbVotes(newLimit) ==
    /\ worker # "panicked"
    /\ gen.pc \in {"idle", "returned"}
    /\ limitNbVotes' = LimitNbVotesResult(limitNbVotes, newLimit)
    /\ last' = Did("LimitNbVotes", LimitNbVotesError(limitNbVotes, newLimit),
                   Info(newLimit, << >>, {}))
    /\ UNCHANGED << utxos, tickets, maturingVotes, blockConnectedNtfnChan,
                    winningTicketsNtfnChan, worker, ctxDone, node, gen, faults,
                    voteFrame >>

(***************************************************************************)
(* The node: connecting a block and notifying the wallet                   *)
(***************************************************************************)

BlockHash(h) == TxHash([type |-> "block", height |-> h])

\* A ticket of another wallet.
ForeignTicket(i) ==
    TxHash([ type |-> "ticket",
             in |-> [ Hash |-> TxHash([type |-> "other"]), Index |-> i,
                      Tree |-> "regular" ],
             price |-> 0, change |-> 0 ])

\* The sequences of n distinct elements of S.
RECURSIVE Arrangements(_, _)
Arrangements(S, n) ==
    IF n = 0 THEN { << >> }
    ELSE UNION { { << x >> \o r : r \in Arrangements(S \ {x}, n - 1) } : x \in S }

\* Foreign tickets are interchangeable: a draw takes the lowest numbered
\* remaining ones, in increasing order.
ForeignInOrder(w, foreign) ==
    LET fs == { i \in foreign : \E j \in DOMAIN w : w[j] = ForeignTicket(i) }
    IN /\ \A i \in fs : \A i2 \in foreign : i2 < i => i2 \in fs
       /\ \A j1, j2 \in DOMAIN w : \A i1, i2 \in foreign :
            (j1 < j2 /\ w[j1] = ForeignTicket(i1) /\ w[j2] = ForeignTicket(i2))
               => i1 < i2

\* The winning tickets the node may draw at height h from the live tickets:
\* TicketsPerBlock mature tickets (all of them when fewer are live).
Draws(live, foreign, h) ==
    LET eligible == { t.hash : t \in { l \in live :
                                   l.mined + ActiveNet.TicketMaturity <= h } }
        pool == eligible \cup { ForeignTicket(i) : i \in foreign }
        n == Min(ActiveNet.TicketsPerBlock, Cardinality(pool))
    IN { w \in Arrangements(pool, n) : ForeignInOrder(w, foreign) }

\* A callback that puts the event at the head of the queue.
onBlockConnectedAtHead(ch, ntfn) == << ntfn >> \o ch

\* onBlockConnected / onWinningTickets: the send on the channel.
onBlockConnected(ch, ntfn) == Append(ch, ntfn)

onWinningTickets(ch, ntfn) == Append(ch, ntfn)

\* The node connects the block at height bestHeight + 1: it mines the
\* mempool, retargets the stake difficulty at a window boundary, draws the
\* winning tickets from SVH-1 on, and notifies the wallet.
ConnectBlock ==
    LET h == node.bestHeight + 1
        mined == node.live \cup
                   { [hash |-> t, mined |-> h] : t \in node.mempoolTickets }
        draws == IF h >= ActiveNet.StakeValidationHeight - 1
                 THEN Draws(mined, node.foreign, h) ELSE { << >> }
        sbitsAt == IF h % ActiveNet.StakeDiffWindowSize = 0
                   THEN StakeDiffs ELSE { node.sbits }
    IN /\ Len(blockConnectedNtfnChan) < Min(bufferLen, MaxPending)
       /\ Len(winningTicketsNtfnChan) < Min(bufferLen, MaxPending)
       /\ \E sb \in sbitsAt : \E w \in draws :
            /\ node' = [ bestHeight |-> h,
                         sbits |-> sb,
                         mempoolTickets |-> {},
                         mempoolVotes |-> {},
                         live |-> { l \in mined : l.hash \notin Range(w) },
                         foreign |-> { i \in node.foreign :
                                         ForeignTicket(i) \notin Range(w) },
                         drawHeight |->
                           IF h >= ActiveNet.StakeValidationHeight - 1
                           THEN h ELSE node.drawHeight ]
            /\ blockConnectedNtfnChan' =
                 onBlockConnected(blockConnectedNtfnChan,
                                  [ height |-> h, sbits |-> sb ])
            /\ winningTicketsNtfnChan' =
                 IF h >= ActiveNet.StakeValidationHeight - 1
                 THEN onWinningTickets(winningTicketsNtfnChan,
                                       [ blockHash |-> BlockHash(h),
                                         blockHeight |-> h,
                                         winningTickets |-> w ])
                 ELSE winningTicketsNtfnChan

(***************************************************************************)
(* handleBlockConnectedNtfn                                                *)
(***************************************************************************)

\* TicketPrice without the headroom over the current stake difficulty.
TicketPriceNoHeadroom(sbits) == sbits

\* ticketPrice := header.SBits + (header.SBits / 6)
TicketPrice(sbits) == sbits + (sbits \div 6)

\* len(w.utxos) <= nbTickets in place of len(w.utxos) < nbTickets.
InsufficientUtxosOrEqual(u, nbTickets) == Len(u) <= nbTickets

\* if len(w.utxos) < nbTickets
InsufficientUtxos(u, nbTickets) == Len(u) < nbTickets

\* SelectUtxos taking the oldest utxos, the head of the slice.
SelectUtxosOldest(u, nbTickets) == SubSeq(u, 1, nbTickets)

\* The nbTickets utxos the purchase takes: the tail of w.utxos.
SelectUtxos(u, nbTickets) == SubSeq(u, Len(u) - nbTickets + 1, Len(u))

\* RemainingUtxos keeping the oldest of the selected utxos in w.utxos.
RemainingUtxosKeepsOne(u, nbTickets) == SubSeq(u, 1, Len(u) - nbTickets + 1)

\* w.utxos after the selection.
RemainingUtxos(u, nbTickets) == SubSeq(u, 1, Len(u) - nbTickets)

\* The ticket spending utxo: the voting rights output at ticketPrice, the
\* zero valued commitment and the change sent to the null script.
TicketTx(utxo, ticketPrice) ==
    [ type |-> "ticket", in |-> utxo.outpoint, price |-> ticketPrice,
      change |-> utxo.amount - commitAmount ]

\* Index of the first promise whose Receive fails; n + 1 if none does.
FirstFailure(okSet, n) ==
    IF \E i \in 1..n : i \notin okSet
    THEN CHOOSE i \in 1..n : i \notin okSet /\ \A j \in 1..(i - 1) : j \in okSet
    ELSE n + 1

\* RecordTickets recording the ticket whose Receive failed as well.
RecordTicketsThroughFailure(tk, txs, ticketPrice, firstFail) ==
    LET new == { TxHash(txs[i]) : i \in 1..Min(firstFail, Len(txs)) }
    IN [ h \in new \cup DOMAIN tk |->
           IF h \in new THEN [ticketPrice |-> ticketPrice] ELSE tk[h] ]

\* w.tickets after the Receive loop recorded the tickets before firstFail.
RecordTickets(tk, txs, ticketPrice, firstFail) ==
    LET new == { TxHash(txs[i]) : i \in 1..(firstFail - 1) }
    IN [ h \in new \cup DOMAIN tk |->
           IF h \in new THEN [ticketPrice |-> ticketPrice] ELSE tk[h] ]

\* Whether the handler appends the votes maturing at blockHeight.
HasMaturing(mv, blockHeight) == blockHeight \in DOMAIN mv

\* w.utxos after the votes maturing at blockHeight were appended.
AppendMatured(u, mv, blockHeight) == u \o mv[blockHeight]

\* w.maturingVotes after delete(w.maturingVotes, blockHeight).
DeleteMaturing(mv, blockHeight) ==
    [ h \in DOMAIN mv \ {blockHeight} |-> mv[h] ]

\* The handler run on ntfn in wallet state w; signOk: every ticket is signed,
\* okSet: the submissions the node accepts.
PurchaseResult(w, ntfn, signOk, okSet) ==
    LET nbTickets   == ActiveNet.TicketsPerBlock
        ticketPrice == TicketPrice(ntfn.sbits)
        selected    == SelectUtxos(w.utxos, nbTickets)
        rest        == RemainingUtxos(w.utxos, nbTickets)
        txs         == [ i \in 1..nbTickets |-> TicketTx(selected[i], ticketPrice) ]
        firstFail   == FirstFailure(okSet, nbTickets)
        recorded    == RecordTickets(w.tickets, txs, ticketPrice, firstFail)
        same        == [ utxos |-> w.utxos, tickets |-> w.tickets,
                         maturingVotes |-> w.maturingVotes,
                         built |-> << >>, accepted |-> {}, outcome |-> "noop" ]
    IN IF ntfn.height < ticketPurchaseStartHeight(ActiveNet)
       THEN same
       ELSE IF InsufficientUtxos(w.utxos, nbTickets)
       THEN [ same EXCEPT !.outcome = "insufficient utxos" ]
       ELSE IF ~signOk
       THEN [ same EXCEPT !.outcome = "failed to sign ticket tx", !.utxos = rest ]
       ELSE IF firstFail <= nbTickets
       THEN [ outcome |-> "unable to send ticket tx",
              utxos |-> rest, tickets |-> recorded,
              maturingVotes |-> w.maturingVotes,
              built |-> txs, accepted |-> { TxHash(txs[i]) : i \in okSet } ]
       ELSE [ outcome |-> "ok",
              utxos |-> IF HasMaturing(w.maturingVotes, ntfn.height)
                        THEN AppendMatured(rest, w.maturingVotes, ntfn.height)
                        ELSE rest,
              tickets |-> recorded,
              maturingVotes |-> IF HasMaturing(w.maturingVotes, ntfn.height)
                                THEN DeleteMaturing(w.maturingVotes, ntfn.height)
                                ELSE w.maturingVotes,
              built |-> txs, accepted |-> { TxHash(txs[i]) : i \in okSet } ]

handleBlockConnectedNtfn ==
    /\ worker = "running"
    /\ voteFrame.pc = "idle"
    /\ blockConnectedNtfnChan # << >>
    /\ LET ntfn == Head(blockConnectedNtfnChan)
           all  == 1..ActiveNet.TicketsPerBlock
       IN \E signOk \in BOOLEAN : \E okSet \in SUBSET all :
            LET r == PurchaseResult(Wallet, ntfn, signOk, okSet)
                faulty == ~signOk \/ okSet # all
            IN /\ faulty => /\ faults < MaxFaults
                            /\ r.outcome \in { "failed to sign ticket tx",
                                               "unable to send ticket tx" }
                            /\ signOk \/ okSet = all
               /\ faults' = IF faulty THEN faults + 1 ELSE faults
               /\ utxos' = r.utxos
               /\ tickets' = r.tickets
               /\ maturingVotes' = r.maturingVotes
               /\ node' = [ node EXCEPT !.mempoolTickets = @ \cup r.accepted ]
               /\ last' = Did("handleBlockConnectedNtfn", r.outcome,
                              Info(ntfn, r.built, r.accepted))
    /\ blockConnectedNtfnChan' = Tail(blockConnectedNtfnChan)
    /\ UNCHANGED << limitNbVotes, winningTicketsNtfnChan, worker, ctxDone, gen,
                    voteFrame >>

(***************************************************************************)
(* handleWinningTicketsNtfn                                                *)
(***************************************************************************)

\* w.subsidyCache.CalcStakeVoteSubsidyV2(height, true): the vote subsidy of
\* the chain, which is reduced every SubsidyReductionInterval blocks.
CalcStakeVoteSubsidyV2(height) ==
    IF height \div ActiveNet.SubsidyReductionInterval = 0 THEN 3 ELSE 2

\* The vote of ticket wt on the block of ntfn: the stakebase input of
\* stakebaseValue, the input spending the ticket, the block reference, the
\* vote bits and the vote return output.
VoteTx(wt, ntfn, ticket, stakebaseValue) ==
    [ type |-> "vote", ticket |-> wt, blockHash |-> ntfn.blockHash,
      height |-> ntfn.blockHeight,
      payout |-> ticket.ticketPrice + stakebaseValue ]

\* The loop without its break: the limit is never found reached.
LimitReachedNever(nbVotes, limit) == FALSE

\* LimitReached stopping one vote late.
LimitReachedLate(nbVotes, limit) == nbVotes > limit

\* Whether the loop stops after having built nbVotes votes.
LimitReached(nbVotes, limit) == nbVotes >= limit

\* The loop over ntfn.winningTickets from index i on, votes being the votes
\* built so far (nbVotes = Len(votes)), cap the length of the votes slice and
\* limit the value of w.limitNbVotes.  Writing votes[nbVotes] past the slice
\* panics (index out of range).
RECURSIVE VoteLoop(_, _, _, _, _, _)
VoteLoop(tk, ntfn, i, votes, cap, limit) ==
    IF i > Len(ntfn.winningTickets)
    THEN [ status |-> "ok", votes |-> votes ]
    ELSE LET wt == ntfn.winningTickets[i]
         IN IF wt \notin DOMAIN tk
            THEN VoteLoop(tk, ntfn, i + 1, votes, cap, limit)
            ELSE IF Len(votes) >= cap
            THEN [ status |-> "panic", votes |-> votes ]
            ELSE LET more == Append(votes,
                               VoteTx(wt, ntfn, tk[wt],
                                      CalcStakeVoteSubsidyV2(ntfn.blockHeight)))
                 IN IF LimitReached(Len(more), limit)
                    THEN [ status |-> "ok", votes |-> more ]
                    ELSE VoteLoop(tk, ntfn, i + 1, more, cap, limit)

\* VoteUtxo taking the amount of output 0, the block reference, which is zero.
VoteUtxoWrongOutput(vote) ==
    [ outpoint |-> [ Hash |-> TxHash(vote), Index |-> 2, Tree |-> "stake" ],
      amount |-> 0 ]

\* The utxo the vote pays back to the wallet: its output 2.
VoteUtxo(vote) ==
    [ outpoint |-> [ Hash |-> TxHash(vote), Index |-> 2, Tree |-> "stake" ],
      amount |-> vote.payout ]

\* maturingHeight := ntfn.blockHeight + CoinbaseMaturity
MaturingHeight(blockHeight) == blockHeight + ActiveNet.CoinbaseMaturity

\* w.maturingVotes[maturingHeight] = newUtxos
StoreMaturing(mv, maturingHeight, newUtxos) ==
    [ h \in DOMAIN mv \cup {maturingHeight} |->
        IF h = maturingHeight THEN newUtxos ELSE mv[h] ]

\* The handler run on ntfn in wallet state w.  fail: "none", "blockref"
\* (GenerateSSGenBlockRef fails) or "sign" (signing or CheckSSGen fails);
\* okSet: the submissions the node accepts.
VoteResult(w, ntfn, fail, okSet) ==
    LET loop      == VoteLoop(w.tickets, ntfn, 1, << >>, w.limitNbVotes,
                              w.limitNbVotes)
        votes     == loop.votes
        nbVotes   == Len(votes)
        firstFail == FirstFailure(okSet, nbVotes)
        newUtxos  == [ i \in 1..nbVotes |-> VoteUtxo(votes[i]) ]
        same      == [ tickets |-> w.tickets, maturingVotes |-> w.maturingVotes,
                       built |-> << >>, accepted |-> {}, outcome |-> "noop" ]
    IN IF fail = "blockref"
       THEN [ same EXCEPT !.outcome = "unable to generate ssgen block ref" ]
       ELSE IF loop.status = "panic"
       THEN [ same EXCEPT !.outcome = "panic: index out of range" ]
       ELSE IF fail = "sign"
       THEN [ same EXCEPT !.outcome = "failed to sign ticket tx" ]
       ELSE IF firstFail <= nbVotes
       THEN [ same EXCEPT !.outcome = "unable to send vote tx",
                          !.built = votes,
                          !.accepted = { TxHash(votes[i]) : i \in okSet } ]
       ELSE [ outcome |-> "ok",
              tickets |-> w.tickets,
              maturingVotes |-> StoreMaturing(w.maturingVotes,
                                              MaturingHeight(ntfn.blockHeight),
                                              newUtxos),
              built |-> votes,
              accepted |-> { TxHash(votes[i]) : i \in okSet } ]

handleWinningTicketsNtfn ==
    /\ worker = "running"
    /\ winningTicketsNtfnChan # << >>
    /\ LET ntfn == Head(winningTicketsNtfnChan)
           loop == VoteLoop(tickets, ntfn, 1, << >>, limitNbVotes, limitNbVotes)
           all  == 1..Len(loop.votes)
       IN \E fail \in {"none", "blockref", "sign"} : \E okSet \in SUBSET all :
            LET r == VoteResult(Wallet, ntfn, fail, okSet)
                faulty == fail # "none" \/ okSet # all
            IN /\ faulty => /\ faults < MaxFaults
                            /\ fail = "none" \/ okSet = all
                            /\ fail = "sign" => all # {}
                            /\ r.outcome # "panic: index out of range"
               /\ faults' = IF faulty THEN faults + 1 ELSE faults
               /\ tickets' = r.tickets
               /\ maturingVotes' = r.maturingVotes
               /\ worker' = IF r.outcome = "panic: index out of range"
                            THEN "panicked" ELSE worker
               /\ node' = [ node EXCEPT !.mempoolVotes = @ \cup r.accepted ]
               /\ last' = Did("handleWinningTicketsNtfn", r.outcome,
                              Info(ntfn, r.built, r.accepted))
    /\ winningTicketsNtfnChan' = Tail(winningTicketsNtfnChan)
    /\ UNCHANGED << utxos, limitNbVotes, blockConnectedNtfnChan, ctxDone, gen,
                    voteFrame >>

(***************************************************************************)
(* handleNotifications: cancellation                                       *)
(***************************************************************************)

\* The caller cancels the context.
Cancel ==
    /\ ~ctxDone
    /\ faults < MaxFaults
    /\ faults' = faults + 1
    /\ worker = "running"
    /\ ctxDone' = TRUE
    /\ UNCHANGED << utxos, tickets, maturingVotes, limitNbVotes,
                    blockConnectedNtfnChan, winningTicketsNtfnChan, worker, node,
                    gen, last,
                    voteFrame >>

\* The select of handleNotifications takes the ctx.Done() case.
handleNotificationsDone ==
    /\ worker = "running"
    /\ ctxDone
    /\ worker' = "stopped"
    /\ UNCHANGED << utxos, tickets, maturingVotes, limitNbVotes,
                    blockConnectedNtfnChan, winningTicketsNtfnChan, ctxDone, node,
                    gen, faults, last,
                    voteFrame >>

(***************************************************************************)
(* GenerateBlocks                                                          *)
(***************************************************************************)

\* needsVotes := genHeight >= (StakeValidationHeight - 1)
NeedsVotes(genHeight) == genHeight >= ActiveNet.StakeValidationHeight - 1

\* needsTickets := genHeight >= ticketPurchaseStartHeight(ActiveNet)
NeedsTickets(genHeight) == genHeight >= ticketPurchaseStartHeight(ActiveNet)

\* gotAllReqs asking for more than nbVotes of each.
GotAllReqsStrict(needsTickets, needsVotes, nbMempoolTickets, nbMempoolVotes, nbVotes) ==
    /\ (~needsTickets \/ nbMempoolTickets > nbVotes)
    /\ (~needsVotes \/ nbMempoolVotes > nbVotes)

\* gotAllReqs as the testTimeout case computes it.
GotAllReqs(needsTickets, needsVotes, nbMempoolTickets, nbMempoolVotes, nbVotes) ==
    /\ (~needsTickets \/ nbMempoolTickets >= nbVotes)
    /\ (~needsVotes \/ nbMempoolVotes >= nbVotes)

\* notGot as the timeout case computes it.
NotGot(nbMempoolTickets, nbMempoolVotes, nbVotes, nbTickets) ==
    (IF nbMempoolVotes # nbVotes THEN << "votes" >> ELSE << >>)
      \o (IF nbMempoolTickets # nbTickets THEN << "tickets" >> ELSE << >>)

\* The driver state once GenerateBlocks has returned.
Returned(g, err, notGot, seen) ==
    [ g EXCEPT !.pc = "returned", !.err = err, !.notGot = notGot, !.seen = seen,
               !.hashes = << >> ]

\* The end of one iteration of the for loop: the next block, or the return
\* of the hashes.
NextBlock(g) ==
    IF g.i + 1 < g.nb
    THEN [ g EXCEPT !.pc = "mine", !.i = g.i + 1 ]
    ELSE [ g EXCEPT !.pc = "returned", !.i = g.i + 1, !.err = "nil" ]

\* The locals of GenerateBlocks(nb) before its loop: startHeight from
\* GetBestBlock, nbVotes := w.limitNbVotes, nbTickets := TicketsPerBlock.
Called(nb) ==
    [ pc |-> "mine", nb |-> nb, i |-> 0,
      startHeight |-> node.bestHeight,
      nbVotes |-> limitNbVotes,
      nbTickets |-> ActiveNet.TicketsPerBlock,
      hashes |-> << >>, genHeight |-> 0,
      needsVotes |-> FALSE, needsTickets |-> FALSE,
      polled |-> FALSE, seen |-> << 0, 0 >>,
      err |-> "running", notGot |-> << >> ]

\* The caller may call GenerateBlocks(nb): the wallet runs, no call is in
\* progress, and the chain stays within the heights explored.
MayCall(nb) ==
    /\ worker = "running"
    /\ ~ctxDone
    /\ gen.pc \in {"idle", "returned"}
    /\ node.bestHeight + nb <= MaxHeight

\* GenerateBlocksCall storing nbTickets in the wallet's vote limit.
GenerateBlocksCallWritesLimit(nb) ==
    /\ MayCall(nb)
    /\ gen' = Called(nb)
    /\ limitNbVotes' = ActiveNet.TicketsPerBlock
    /\ UNCHANGED << utxos, tickets, maturingVotes,
                    blockConnectedNtfnChan, winningTicketsNtfnChan, worker,
                    ctxDone, node, faults, last,
                    voteFrame >>

\* The call, GetBestBlock succeeding.
GenerateBlocksCall(nb) ==
    /\ MayCall(nb)
    /\ gen' = Called(nb)
    /\ UNCHANGED << utxos, tickets, maturingVotes, limitNbVotes,
                    blockConnectedNtfnChan, winningTicketsNtfnChan, worker,
                    ctxDone, node, faults, last,
                    voteFrame >>

\* The call, GetBestBlock failing: its error is returned.
GenerateBlocksCallFails(nb) ==
    /\ MayCall(nb)
    /\ faults < MaxFaults
    /\ faults' = faults + 1
    /\ gen' = Returned(Called(nb), "GetBestBlock", << >>, << 0, 0 >>)
    /\ UNCHANGED << utxos, tickets, maturingVotes, limitNbVotes,
                    blockConnectedNtfnChan, winningTicketsNtfnChan, worker,
                    ctxDone, node, last,
                    voteFrame >>

GenerateBlocks(nb) == GenerateBlocksCall(nb) \/ GenerateBlocksCallFails(nb)

\* One call of the miner for one block, and the requirements of its height.
GenerateBlocksMine ==
    /\ gen.pc = "mine"
    /\ worker # "panicked"
    /\ ConnectBlock
    /\ LET genHeight == gen.startHeight + gen.i + 1
           g == [ gen EXCEPT
                    !.genHeight = genHeight,
                    !.hashes = Append(@, BlockHash(node.bestHeight + 1)),
                    !.needsVotes = NeedsVotes(genHeight),
                    !.needsTickets = NeedsTickets(genHeight),
                    !.polled = FALSE ]
       IN gen' = IF ~g.needsVotes /\ ~g.needsTickets
                 THEN NextBlock(g)
                 ELSE [ g EXCEPT !.pc = "poll" ]
    /\ UNCHANGED << utxos, tickets, maturingVotes, limitNbVotes, worker, ctxDone,
                    faults, last,
                    voteFrame >>

\* The miner fails: "unable to generate block at height genHeight".
GenerateBlocksMineFails ==
    /\ gen.pc = "mine"
    /\ worker # "panicked"
    /\ faults < MaxFaults
    /\ faults' = faults + 1
    /\ gen' = Returned([gen EXCEPT !.genHeight = gen.startHeight + gen.i + 1],
                       "unable to generate block", << >>, << 0, 0 >>)
    /\ UNCHANGED << utxos, tickets, maturingVotes, limitNbVotes,
                    blockConnectedNtfnChan, winningTicketsNtfnChan, worker,
                    ctxDone, node, last,
                    voteFrame >>

\* case <-testTimeout: the mempool is read and gotAllReqs computed.
GenerateBlocksPoll ==
    /\ gen.pc = "poll"
    /\ worker # "panicked"
    /\ LET nt == Cardinality(node.mempoolTickets)
           nv == Cardinality(node.mempoolVotes)
           g  == [ gen EXCEPT !.polled = TRUE ]
       IN gen' = IF GotAllReqs(gen.needsTickets, gen.needsVotes, nt, nv,
                               gen.nbVotes)
                 THEN NextBlock(g)
                 ELSE g
    /\ UNCHANGED << utxos, tickets, maturingVotes, limitNbVotes,
                    blockConnectedNtfnChan, winningTicketsNtfnChan, worker,
                    ctxDone, node, faults, last,
                    voteFrame >>

\* case <-timeout: the five seconds are over; the poll interval being two
\* milliseconds, the mempool has been polled before.
GenerateBlocksTimeout ==
    /\ gen.pc = "poll"
    /\ gen.polled
    /\ worker # "panicked"
    /\ faults < MaxFaults
    /\ faults' = faults + 1
    /\ LET nt == Cardinality(node.mempoolTickets)
           nv == Cardinality(node.mempoolVotes)
       IN gen' = Returned(gen, "timeout",
                          NotGot(nt, nv, gen.nbVotes, gen.nbTickets), << nt, nv >>)
    /\ UNCHANGED << utxos, tickets, maturingVotes, limitNbVotes,
                    blockConnectedNtfnChan, winningTicketsNtfnChan, worker,
                    ctxDone, node, last,
                    voteFrame >>

\* case <-ctx.Done()
GenerateBlocksDone ==
    /\ gen.pc = "poll"
    /\ ctxDone
    /\ worker # "panicked"
    /\ gen' = Returned(gen, "wallet is stopping", << >>, gen.seen)
    /\ UNCHANGED << utxos, tickets, maturingVotes, limitNbVotes,
                    blockConnectedNtfnChan, winningTicketsNtfnChan, worker,
                    ctxDone, node, faults, last,
                    voteFrame >>

Next ==
    \/ Start
    \/ \E n \in -1..(ActiveNet.TicketsPerBlock + 1) : LimitNbVotes(n)
    \/ handleBlockConnectedNtfn
    \/ handleWinningTicketsNtfn
    \/ Cancel
    \/ handleNotificationsDone
    \/ \E nb \in NbChoices : GenerateBlocks(nb)
    \/ GenerateBlocksMine
    \/ GenerateBlocksMineFails
    \/ GenerateBlocksPoll
    \/ GenerateBlocksTimeout
    \/ GenerateBlocksDone

Spec == Init /\ [][Next]_vars

\* The network parameters the two functions of the parameters and Start are
\* tried on: those of ActiveNet, the example 16, 2, 4, 5, and large ones.
NetChoices ==
    [ CoinbaseMaturity : {1, 4, 65533},
      TicketMaturity : {1, 2, 3},
      TicketsPerBlock : {2, 5, 7},
      StakeValidationHeight : {5, 16, 300, 4096},
      MinimumStakeDiff : {2} ]

\* requiredTicketCount(net) is called.
CallRequiredTicketCount(net) ==
    /\ last' = Did("requiredTicketCount", requiredTicketCount(net),
                   Info(net, << >>, {}))
    /\ UNCHANGED << utxos, tickets, maturingVotes, limitNbVotes,
                    blockConnectedNtfnChan, winningTicketsNtfnChan, worker,
                    ctxDone, node, gen, faults,
                    voteFrame >>

\* ticketPurchaseStartHeight(net) is called.
CallTicketPurchaseStartHeight(net) ==
    /\ last' = Did("ticketPurchaseStartHeight", ticketPurchaseStartHeight(net),
                   Info(net, << >>, {}))
    /\ UNCHANGED << utxos, tickets, maturingVotes, limitNbVotes,
                    blockConnectedNtfnChan, winningTicketsNtfnChan, worker,
                    ctxDone, node, gen, faults,
                    voteFrame >>

\* Start of a wallet bound to a harness of the network net.
StartOn(net) ==
    /\ worker = "idle"
    /\ utxos' = StartUtxosOn(net)
    /\ worker' = "running"
    /\ last' = Did("Start", "ok", Info(net, << >>, {}))
    /\ UNCHANGED << tickets, maturingVotes, limitNbVotes, blockConnectedNtfnChan,
                    winningTicketsNtfnChan, ctxDone, node, gen, faults,
                    voteFrame >>

NextParams ==
    \E net \in NetChoices :
      \/ CallRequiredTicketCount(net)
      \/ CallTicketPurchaseStartHeight(net)
      \/ StartOn(net)

SpecParams == Init /\ [][NextParams]_vars

\* The notification callbacks called by the client on their own, whatever
\* the worker does: the wallet is funded, nothing fails, and no ticket of the
\* wallet is drawn.
InitIngress == NewVotingWallet(ForeignIds, MaxFaults)

\* The client calls onBlockConnected for the next block: the send blocks
\* while the channel holds bufferLen events.
DeliverBlockConnected ==
    /\ node.bestHeight < MaxDelivered
    /\ Len(blockConnectedNtfnChan) < bufferLen
    /\ blockConnectedNtfnChan' =
         onBlockConnected(blockConnectedNtfnChan,
                          [ height |-> node.bestHeight + 1, sbits |-> node.sbits ])
    /\ node' = [ node EXCEPT !.bestHeight = @ + 1 ]
    /\ UNCHANGED << utxos, tickets, maturingVotes, limitNbVotes,
                    winningTicketsNtfnChan, worker, ctxDone, gen, faults, last,
                    voteFrame >>

\* The client calls onWinningTickets for the next draw: the send blocks
\* while the channel holds bufferLen events.
DeliverWinningTickets ==
    /\ node.drawHeight < MaxDelivered
    /\ Len(winningTicketsNtfnChan) < bufferLen
    /\ \E i \in ForeignIds :
         winningTicketsNtfnChan' =
           onWinningTickets(winningTicketsNtfnChan,
                            [ blockHash |-> BlockHash(node.drawHeight + 1),
                              blockHeight |-> node.drawHeight + 1,
                              winningTickets |-> << ForeignTicket(i) >> ])
    /\ node' = [ node EXCEPT !.drawHeight = @ + 1 ]
    /\ UNCHANGED << utxos, tickets, maturingVotes, limitNbVotes,
                    blockConnectedNtfnChan, worker, ctxDone, gen, faults, last,
                    voteFrame >>

NextIngress ==
    \/ StartFunded
    \/ DeliverBlockConnected
    \/ DeliverWinningTickets
    \/ handleBlockConnectedNtfn
    \/ handleWinningTicketsNtfn

SpecIngress == InitIngress /\ [][NextIngress]_vars

\* LimitNbVotes called while the worker runs: w.limitNbVotes is written and
\* read without synchronization, so handleWinningTicketsNtfn is taken one
\* access of w.limitNbVotes at a time.
InitRace == NewVotingWallet(ForeignIds, MaxFaults)

\* The values a read of w.limitNbVotes by the worker can return: the value
\* stored last or, the read racing with the stores, an earlier one that is
\* not older than the one the worker read before.  The stores only lower
\* the value.
Visible == { v \in voteFrame.written : v <= voteFrame.observed }

\* range ntfn.winningTickets is exhausted: the loop is left.
LoopEnd(f) ==
    IF f.i > Len(f.ntfn.winningTickets) THEN [ f EXCEPT !.pc = "publish" ] ELSE f

\* The handler starts: votes := make([]wire.MsgTx, w.limitNbVotes).
handleWinningTicketsNtfnBegin ==
    /\ worker = "running"
    /\ voteFrame.pc = "idle"
    /\ winningTicketsNtfnChan # << >>
    /\ \E v \in Visible :
         voteFrame' = LoopEnd([ voteFrame EXCEPT
                                  !.pc = "loop",
                                  !.ntfn = Head(winningTicketsNtfnChan),
                                  !.cap = v, !.i = 1, !.votes = << >>,
                                  !.observed = v ])
    /\ winningTicketsNtfnChan' = Tail(winningTicketsNtfnChan)
    /\ UNCHANGED << utxos, tickets, maturingVotes, limitNbVotes,
                    blockConnectedNtfnChan, worker, ctxDone, node, gen, faults,
                    last >>

\* One iteration of the loop over ntfn.winningTickets: a ticket of another
\* wallet is skipped; for a ticket of the wallet votes[nbVotes] is indexed,
\* which panics when nbVotes is the length of votes, the vote is built and
\* nbVotes is compared with w.limitNbVotes read again.
handleWinningTicketsNtfnVisit ==
    /\ worker = "running"
    /\ voteFrame.pc = "loop"
    /\ LET f  == voteFrame
           wt == f.ntfn.winningTickets[f.i]
       IN IF wt \notin DOMAIN tickets
          THEN /\ voteFrame' = LoopEnd([ f EXCEPT !.i = @ + 1 ])
               /\ UNCHANGED << worker, last >>
          ELSE IF Len(f.votes) >= f.cap
          THEN /\ voteFrame' = [ f EXCEPT !.pc = "panicked" ]
               /\ worker' = "panicked"
               /\ last' = Did("handleWinningTicketsNtfn",
                              "panic: index out of range",
                              Info(f.ntfn, << >>, {}))
          ELSE /\ \E v \in Visible :
                    LET more == Append(f.votes,
                                  VoteTx(wt, f.ntfn, tickets[wt],
                                         CalcStakeVoteSubsidyV2(f.ntfn.blockHeight)))
                        g    == [ f EXCEPT !.votes = more, !.observed = v ]
                    IN voteFrame' = IF LimitReached(Len(more), v)
                                    THEN [ g EXCEPT !.pc = "publish" ]
                                    ELSE LoopEnd([ g EXCEPT !.i = @ + 1 ])
               /\ UNCHANGED << worker, last >>
    /\ UNCHANGED << utxos, tickets, maturingVotes, limitNbVotes,
                    blockConnectedNtfnChan, winningTicketsNtfnChan, ctxDone,
                    node, gen, faults >>

\* The votes are published, the node accepting them all, and their payouts
\* are stored in w.maturingVotes.
handleWinningTicketsNtfnPublish ==
    /\ worker = "running"
    /\ voteFrame.pc = "publish"
    /\ LET f        == voteFrame
           newUtxos == [ k \in 1..Len(f.votes) |-> VoteUtxo(f.votes[k]) ]
           accepted == { TxHash(f.votes[k]) : k \in 1..Len(f.votes) }
       IN /\ maturingVotes' = StoreMaturing(maturingVotes,
                                            MaturingHeight(f.ntfn.blockHeight),
                                            newUtxos)
          /\ node' = [ node EXCEPT !.mempoolVotes = @ \cup accepted ]
          /\ last' = Did("handleWinningTicketsNtfn", "ok",
                         Info(f.ntfn, f.votes, accepted))
          /\ voteFrame' = [ NoFrame EXCEPT !.observed = f.observed,
                                           !.written = f.written ]
    /\ UNCHANGED << utxos, tickets, limitNbVotes, blockConnectedNtfnChan,
                    winningTicketsNtfnChan, worker, ctxDone, gen, faults >>

\* LimitNbVotes called at any moment of the worker's run.
LimitNbVotesConcurrently(newLimit) ==
    /\ worker # "panicked"
    /\ limitNbVotes' = LimitNbVotesResult(limitNbVotes, newLimit)
    /\ voteFrame' = [ voteFrame EXCEPT !.written = @ \cup { limitNbVotes' } ]
    /\ last' = Did("LimitNbVotes", LimitNbVotesError(limitNbVotes, newLimit),
                   Info(newLimit, << >>, {}))
    /\ UNCHANGED << utxos, tickets, maturingVotes, blockConnectedNtfnChan,
                    winningTicketsNtfnChan, worker, ctxDone, node, gen, faults >>

NextRace ==
    \/ StartFunded
    \/ \E newLimit \in 0..ActiveNet.TicketsPerBlock :
         LimitNbVotesConcurrently(newLimit)
    \/ handleBlockConnectedNtfn
    \/ handleWinningTicketsNtfnBegin
    \/ handleWinningTicketsNtfnVisit
    \/ handleWinningTicketsNtfnPublish
    \/ GenerateBlocksCall(2)
    \/ GenerateBlocksMine
    \/ GenerateBlocksPoll

SpecRace == InitRace /\ [][NextRace]_vars

\* The select of handleNotifications and the select of GenerateBlocks choose
\* at random among their ready cases: a case that stays ready is taken in
\* the end.
SpecFair ==
    Spec /\ WF_vars(handleNotificationsDone) /\ WF_vars(GenerateBlocksDone)

\* The runs in which nothing fails: no ticket of another wallet is in the
\* pool, every call of the node and of the signer succeeds, the vote limit
\* is left at its default, no wait times out and the context is not
\* cancelled.
InitFaultless == NewVotingWallet({}, MaxFaults)

NextFaultless ==
    \/ StartFunded
    \/ handleBlockConnectedNtfn
    \/ handleWinningTicketsNtfn
    \/ \E nb \in NbChoices : GenerateBlocksCall(nb)
    \/ GenerateBlocksMine
    \/ GenerateBlocksPoll

SpecFaultless == InitFaultless /\ [][NextFaultless]_vars
(***************************************************************************)
(* Properties                                                              *)
(***************************************************************************)

IsPurchase == last.op = "handleBlockConnectedNtfn"

IsVote == last.op = "handleWinningTicketsNtfn"

\* The winning tickets of the draw that the wallet owned when the handler ran.
OwnedInDraw ==
    { i \in DOMAIN last.info.arg.winningTickets :
        last.info.arg.winningTickets[i] \in DOMAIN last.pre.tickets }

\* C1: after LimitNbVotes(L) succeeded with any L >= 0 (L = 0 included),
\* every invocation of the winning tickets handler completes normally and
\* submits at most L votes, however many drawn tickets the wallet owns.
C1_HandlerHonoursLimit ==
    IsVote =>
      /\ last.outcome # "panic: index out of range"
      /\ Len(last.info.built) <= last.pre.limitNbVotes

\* C3: a ticket is removed from the ticket map the moment it is voted: after
\* the handler has submitted a vote spending ticket T, T is no key of
\* w.tickets.
C3_VotedTicketRemoved ==
    (IsVote /\ last.outcome = "ok") =>
      \A i \in DOMAIN last.info.built :
        TxHash(last.info.built[i]) \in last.info.accepted
          => last.info.built[i].ticket \notin DOMAIN tickets

\* C6: when the block connected handler runs at a height >= the purchase
\* start height with at least k = TicketsPerBlock utxos and all k
\* submissions succeed, exactly k new tickets are recorded, each at
\* SBits + SBits/6 of that block, and exactly the k last utxos are removed
\* from the pool by the purchase (the matured votes, if any, are appended
\* after it).
C6_PurchaseRecordsTickets ==
    IsPurchase =>
      LET ntfn == last.info.arg
          pre  == last.pre
          k    == ActiveNet.TicketsPerBlock
          new  == DOMAIN tickets \ DOMAIN pre.tickets
          kept == Len(pre.utxos) - k
          matured == IF ntfn.height \in DOMAIN pre.maturingVotes
                     THEN pre.maturingVotes[ntfn.height] ELSE << >>
      IN /\ ( /\ ntfn.height >= ActiveNet.StakeValidationHeight
                                  - ActiveNet.TicketMaturity - 2
              /\ Len(pre.utxos) >= k
              /\ Cardinality(last.info.accepted) = k ) => last.outcome = "ok"
         /\ last.outcome = "ok" =>
              /\ Cardinality(new) = k
              /\ \A h \in new :
                   tickets[h].ticketPrice = ntfn.sbits + (ntfn.sbits \div 6)
              /\ \A h \in DOMAIN pre.tickets :
                   h \in DOMAIN tickets /\ tickets[h] = pre.tickets[h]
              /\ Len(utxos) = kept + Len(matured)
              /\ \A i \in 1..kept : utxos[i] = pre.utxos[i]
              /\ \A i \in 1..Len(matured) : utxos[kept + i] = matured[i]
              /\ \A i \in 1..k :
                   last.info.built[i].in = pre.utxos[kept + i].outpoint

\* A purchase at a stake difficulty where the integer division matters, which
\* also appended matured votes.
C6_Witness ==
    /\ IsPurchase
    /\ last.outcome = "ok"
    /\ last.info.arg.sbits = 7
    /\ last.info.arg.height \in DOMAIN last.pre.maturingVotes
    /\ Len(last.pre.maturingVotes[last.info.arg.height]) > 0

\* C7: LimitNbVotes(n) with the limit at c: n < 0 returns the negative
\* error and keeps c; n > c returns the other, cannot increase, error and
\* keeps c; 0 <= n <= c returns no error and sets the limit to n.  The limit
\* never increases and stays within 0..TicketsPerBlock.
C7_LimitNbVotes ==
    /\ limitNbVotes \in 0..ActiveNet.TicketsPerBlock
    /\ limitNbVotes <= last.pre.limitNbVotes
    /\ last.op = "LimitNbVotes" =>
         LET n == last.info.arg
             c == last.pre.limitNbVotes
         IN /\ n < 0 => /\ last.outcome = "cannot use negative number of votes"
                        /\ limitNbVotes = c
            /\ n > c => /\ last.outcome = "cannot increase number of votes"
                        /\ limitNbVotes = c
            /\ (0 <= n /\ n <= c) => /\ last.outcome = "nil"
                                     /\ limitNbVotes = n
    /\ last.op # "LimitNbVotes" => limitNbVotes = last.pre.limitNbVotes

\* An increase back to a value the network allows is refused once the limit
\* was lowered.
C7_Witness ==
    /\ last.op = "LimitNbVotes"
    /\ last.outcome = "cannot increase number of votes"
    /\ last.info.arg <= ActiveNet.TicketsPerBlock
    /\ limitNbVotes < last.info.arg

\* C8: a winning ticket that is no key of w.tickets produces no vote and
\* uses none of the limit: the handler builds min(limit, owned tickets in the
\* draw) votes, all of them for owned tickets of the draw, wherever the other
\* tickets stand in the draw.
C8_ForeignTicketsSkipped ==
    (IsVote /\ last.outcome \in {"ok", "unable to send vote tx",
                                 "panic: index out of range"}) =>
      /\ Len(last.info.built) =
           Min(last.pre.limitNbVotes, Cardinality(OwnedInDraw))
      /\ \A i \in DOMAIN last.info.built :
           \E j \in OwnedInDraw :
             last.info.built[i].ticket = last.info.arg.winningTickets[j]

\* A draw that starts with a ticket of another wallet, followed by an owned
\* ticket, under a limit of one: the owned ticket is voted.
C8_Witness ==
    /\ IsVote
    /\ last.outcome = "ok"
    /\ last.pre.limitNbVotes = 1
    /\ Len(last.info.arg.winningTickets) = 2
    /\ OwnedInDraw = {2}
    /\ Len(last.info.built) = 1

\* Unlocked funds + prices of the tickets in the map + scheduled payouts.
TotalFunds(w) ==
    SumAmounts(w.utxos)
      + SumOver([ h \in DOMAIN w.tickets |-> w.tickets[h].ticketPrice ],
                DOMAIN w.tickets)
      + SumOver([ h \in DOMAIN w.maturingVotes |-> SumAmounts(w.maturingVotes[h]) ],
                DOMAIN w.maturingVotes)

\* The fee of the transactions of the last handler invocation: inputs minus
\* outputs.  A ticket spends amount = change + commitAmount and pays price
\* and change; a vote spends the subsidy and the ticket price and pays both.
FeeSpent ==
    IF IsPurchase
    THEN SumOver([ i \in DOMAIN last.info.built |->
                     (last.info.built[i].change + commitAmount)
                       - (last.info.built[i].price + last.info.built[i].change) ],
                 DOMAIN last.info.built)
    ELSE 0

C2_PayoutScheduledAndMatured ==
    /\ IsVote =>
         \A i \in DOMAIN last.info.built :
           TxHash(last.info.built[i]) \in last.info.accepted =>
             LET mh == last.info.arg.blockHeight + ActiveNet.CoinbaseMaturity
             IN /\ mh \in DOMAIN maturingVotes
                /\ \E j \in DOMAIN maturingVotes[mh] :
                     /\ maturingVotes[mh][j].outpoint.Hash
                          = TxHash(last.info.built[i])
                     /\ maturingVotes[mh][j].amount = last.info.built[i].payout
    /\ IsPurchase =>
         LET h == last.info.arg.height
         IN /\ h \notin DOMAIN maturingVotes
            /\ DOMAIN last.pre.maturingVotes \ {h} \subseteq DOMAIN maturingVotes
            /\ h \in DOMAIN last.pre.maturingVotes =>
                 \A j \in DOMAIN last.pre.maturingVotes[h] :
                   \E n \in DOMAIN utxos : utxos[n] = last.pre.maturingVotes[h][j]
    /\ ~IsPurchase => DOMAIN last.pre.maturingVotes \subseteq DOMAIN maturingVotes

\* C5: in the runs where nothing fails (consecutive heights, every
\* submission accepted, only owned tickets drawn, the default limit, the
\* votes of height H handled before the block of H + CoinbaseMaturity), the
\* block connected handler finds at least TicketsPerBlock unlocked funds at
\* every height from the purchase start height on: it never reports
\* insufficient utxos and buys TicketsPerBlock tickets each time.
C5_FundingSuffices ==
    IsPurchase =>
      /\ last.outcome # "insufficient utxos"
      /\ last.info.arg.height >= ticketPurchaseStartHeight(ActiveNet) =>
           /\ Len(last.pre.utxos) >= ActiveNet.TicketsPerBlock
           /\ last.outcome = "ok"
           /\ Len(last.info.built) = ActiveNet.TicketsPerBlock

\* The first purchase the initial funding does not pay for: the pool holds
\* exactly the payouts of the first draw, matured one block before.
C5_Witness ==
    /\ IsPurchase
    /\ last.outcome = "ok"
    /\ last.info.arg.height
         >= ActiveNet.StakeValidationHeight + ActiveNet.CoinbaseMaturity
    /\ Len(last.pre.utxos) = ActiveNet.TicketsPerBlock
    /\ \A i \in DOMAIN last.pre.utxos :
         last.pre.utxos[i].outpoint.Tree = "stake"

\* The mempool holds what the waiting call expects at its height.
ExpectedInMempool ==
    /\ gen.needsTickets => Cardinality(node.mempoolTickets) >= gen.nbTickets
    /\ gen.needsVotes => Cardinality(node.mempoolVotes) >= gen.nbVotes

\* C9: a call that returns without error returns exactly nb hashes, those of
\* the nb blocks the producer was asked for one at a time, in height order;
\* and a poll that finds the expected tickets and votes in the mempool ends
\* the wait of its height without error, the call going on to the next
\* block or returning the hashes.
C9_GenerateBlocksReturnsHashes ==
    /\ [](gen.pc = "returned" /\ gen.err = "nil" =>
            /\ Len(gen.hashes) = gen.nb
            /\ gen.i = gen.nb
            /\ node.bestHeight = gen.startHeight + gen.nb
            /\ \A n \in 1..gen.nb :
                 gen.hashes[n] = BlockHash(gen.startHeight + n))
    /\ [][ ( /\ gen.pc = "poll"
             /\ gen' # gen
             /\ gen'.err \notin {"timeout", "wallet is stopping"}
             /\ ExpectedInMempool )
           => /\ gen'.pc \in {"mine", "returned"}
              /\ gen'.i = gen.i + 1
              /\ gen'.err = IF gen'.i = gen.nb THEN "nil" ELSE "running"
              /\ gen'.hashes = gen.hashes ]_vars

\* A call for two blocks returned their hashes, having waited for tickets
\* and votes at both heights.
C9_Witness ==
    /\ gen.pc = "returned"
    /\ gen.err = "nil"
    /\ gen.nb = 2
    /\ gen.startHeight + 1 >= ActiveNet.StakeValidationHeight - 1
    /\ Len(gen.hashes) = 2

\* C10: the error of a timed out call names exactly the categories that
\* were required at the height and not seen in the expected number, and at
\* least one.
C10_TimeoutNamesMissing ==
    (gen.pc = "returned" /\ gen.err = "timeout") =>
      LET missing ==
            (IF gen.needsVotes /\ gen.seen[2] # gen.nbVotes
             THEN {"votes"} ELSE {})
              \cup (IF gen.needsTickets /\ gen.seen[1] # gen.nbTickets
                    THEN {"tickets"} ELSE {})
      IN /\ Range(gen.notGot) = missing
         /\ missing # {}

\* The number of events waiting in the two queues of the worker.
Pending == Len(blockConnectedNtfnChan) + Len(winningTicketsNtfnChan)

\* C11: the wallet state has a single writer.  Whatever changes the utxos,
\* the tickets or the maturing votes is Start (before the worker exists) or
\* one handler body run by the worker for one event taken from one queue,
\* never two at a time; and no step of GenerateBlocks changes the utxos, the
\* tickets, the maturing votes or the vote limit.
C11_SingleWriter ==
    [][ /\ (utxos' # utxos \/ tickets' # tickets \/ maturingVotes' # maturingVotes)
          => /\ gen' = gen
             /\ \/ /\ worker = "idle"
                   /\ last'.op = "Start"
                   /\ Pending' = Pending
                \/ /\ worker = "running"
                   /\ last'.op \in { "handleBlockConnectedNtfn",
                                     "handleWinningTicketsNtfn" }
                   /\ Pending' = Pending - 1
        /\ Pending' < Pending
          => /\ worker = "running"
             /\ Pending' = Pending - 1
             /\ gen' = gen
             /\ \/ /\ last'.op = "handleBlockConnectedNtfn"
                   /\ blockConnectedNtfnChan' = Tail(blockConnectedNtfnChan)
                   /\ winningTicketsNtfnChan' = winningTicketsNtfnChan
                \/ /\ last'.op = "handleWinningTicketsNtfn"
                   /\ winningTicketsNtfnChan' = Tail(winningTicketsNtfnChan)
                   /\ blockConnectedNtfnChan' = blockConnectedNtfnChan
        /\ gen' # gen
          => UNCHANGED << utxos, tickets, maturingVotes, limitNbVotes >> ]_vars

\* The worker has voted while a call of GenerateBlocks was waiting and the
\* block connected event of the same block was still in its queue.
C11_Witness ==
    /\ IsVote
    /\ last.info.built # << >>
    /\ gen.pc = "poll"
    /\ blockConnectedNtfnChan # << >>
    /\ blockConnectedNtfnChan[1].height = last.info.arg.blockHeight
    /\ limitNbVotes < ActiveNet.TicketsPerBlock

\* C12: once the context is cancelled the worker leaves its loop in the end
\* and handles no event after that; a call of GenerateBlocks waiting in its
\* poll loop stops waiting, and when the cancellation ends the wait the
\* error is "wallet is stopping", not the timeout error; cancelling and
\* stopping undo nothing of what was submitted or recorded.
C12_CancellationStops ==
    /\ ctxDone ~> (worker = "stopped")
    /\ (ctxDone /\ gen.pc = "poll") ~> (gen.pc # "poll")
    /\ [][ /\ worker = "stopped"
             => /\ worker' = "stopped"
                /\ Pending' >= Pending
                /\ UNCHANGED << utxos, tickets, maturingVotes >>
           /\ (gen.pc = "poll" /\ gen'.pc = "returned" /\ gen'.err # "nil"
                 /\ faults' = faults)
             => /\ ctxDone
                /\ gen'.err = "wallet is stopping"
                /\ gen'.err # "timeout"
           /\ (ctxDone' # ctxDone \/ (worker # "stopped" /\ worker' = "stopped"))
             => UNCHANGED << utxos, tickets, maturingVotes, node >> ]_vars

C14_WaitsForRequiredCounts ==
    [][ /\ ( /\ gen.pc = "poll"
             /\ gen'.pc \in {"mine", "returned"}
             /\ gen'.err \in {"running", "nil"} )
          => /\ gen.needsTickets =>
                  Cardinality(node.mempoolTickets) >= ActiveNet.TicketsPerBlock
             /\ gen.needsVotes =>
                  Cardinality(node.mempoolVotes) >= limitNbVotes
        /\ (gen.pc = "mine" /\ gen'.pc = "poll")
          => (gen'.needsTickets \/ gen'.needsVotes) ]_vars

\* C15: when a vote of a batch fails to submit, the payouts of the votes of
\* the batch that were submitted are still recorded at draw height +
\* CoinbaseMaturity: only the bookkeeping of the failed vote is abandoned.
C15_PartialFailureKeepsPayouts ==
    (IsVote /\ last.outcome = "unable to send vote tx") =>
      \A i \in DOMAIN last.info.built :
        TxHash(last.info.built[i]) \in last.info.accepted =>
          /\ MaturingHeight(last.info.arg.blockHeight) \in DOMAIN maturingVotes
          /\ VoteUtxo(last.info.built[i])
               \in Range(maturingVotes[MaturingHeight(last.info.arg.blockHeight)])

\* A step in which the worker takes a block connected event and runs the
\* handler on it; the event is the head of the queue before the step.
PurchaseStep == Len(blockConnectedNtfnChan') < Len(blockConnectedNtfnChan)

\* C16: when the submission of one of the k tickets fails, one error is
\* reported and the rest of the bookkeeping of the event is skipped: tickets
\* are recorded for the transactions before the first failure only, none for
\* the failed one or a later one, nothing is submitted again, the k selected
\* funds stay out of the pool, the matured votes are not moved, and the
\* worker keeps running.
C16_SubmissionFailureAborts ==
    [][ (PurchaseStep /\ last'.outcome = "unable to send ticket tx") =>
          LET k      == ActiveNet.TicketsPerBlock
              built  == last'.info.built
              failed == { i \in 1..k : TxHash(built[i]) \notin last'.info.accepted }
              first  == CHOOSE i \in failed : \A j \in failed : i <= j
          IN /\ Len(built) = k
             /\ failed # {}
             /\ DOMAIN tickets' =
                  DOMAIN tickets \cup { TxHash(built[i]) : i \in 1..(first - 1) }
             /\ \A i \in first..k : TxHash(built[i]) \notin DOMAIN tickets'
             /\ utxos' = SubSeq(utxos, 1, Len(utxos) - k)
             /\ maturingVotes' = maturingVotes
             /\ node'.mempoolTickets =
                  node.mempoolTickets \cup last'.info.accepted
             /\ last'.info.accepted \subseteq { TxHash(built[i]) : i \in 1..k }
             /\ worker' = "running" ]_vars

\* The first ticket was refused and the second accepted by the node: the
\* wallet recorded neither.
C16_Witness ==
    /\ IsPurchase
    /\ last.outcome = "unable to send ticket tx"
    /\ \E i \in DOMAIN last.info.built :
         /\ TxHash(last.info.built[i]) \in last.info.accepted
         /\ TxHash(last.info.built[i]) \notin DOMAIN tickets

\* C17: the handler run at a height >= the purchase start height with fewer
\* than TicketsPerBlock utxos, and only then, reports the one error
\* "insufficient utxos"; it then submits nothing, leaves the utxos, the
\* tickets and the maturing votes as they were, and the worker keeps running.
C17_InsufficientUtxos ==
    [][ PurchaseStep =>
          LET ntfn == Head(blockConnectedNtfnChan)
              P == ActiveNet.StakeValidationHeight - ActiveNet.TicketMaturity - 2
          IN /\ (ntfn.height >= P /\ Len(utxos) < ActiveNet.TicketsPerBlock)
                  <=> last'.outcome = "insufficient utxos"
             /\ last'.outcome = "insufficient utxos" =>
                  /\ last'.info.built = << >>
                  /\ last'.info.accepted = {}
                  /\ UNCHANGED << utxos, tickets, maturingVotes, node, faults >>
                  /\ worker' = "running" ]_vars

\* The handler found too few utxos and left the pool as it was.
C17_Witness ==
    /\ IsPurchase
    /\ last.outcome = "insufficient utxos"
    /\ Len(last.pre.utxos) < ActiveNet.TicketsPerBlock
    /\ utxos = last.pre.utxos

\* C19: a block connected event below the purchase start height
\* (StakeValidationHeight - TicketMaturity - 2) is a no-op: nothing is
\* submitted, no error is reported, and the utxos, the tickets and the
\* maturing votes are left as they were.
C19_BelowStartHeightNoOp ==
    [][ ( /\ PurchaseStep
          /\ Head(blockConnectedNtfnChan).height
               < ActiveNet.StakeValidationHeight - ActiveNet.TicketMaturity - 2 )
        => /\ last'.outcome = "noop"
           /\ last'.info.built = << >>
           /\ last'.info.accepted = {}
           /\ UNCHANGED << utxos, tickets, maturingVotes, node, faults >> ]_vars

\* The event of block 1 was handled by a funded wallet.
C19_Witness ==
    /\ IsPurchase
    /\ last.info.arg.height
         < ActiveNet.StakeValidationHeight - ActiveNet.TicketMaturity - 2
    /\ Len(last.pre.utxos) >= ActiveNet.TicketsPerBlock
    /\ last.outcome = "noop"

\* C20: the purchase takes the last k = TicketsPerBlock entries of the utxos,
\* ticket i spending the i-th of them, and removes exactly those: the entries
\* before them stay, in their order (the votes maturing at this height are
\* appended behind them when the purchase succeeds).
C20_SelectsMostRecent ==
    [][ ( /\ PurchaseStep
          /\ last'.outcome \in { "ok", "unable to send ticket tx",
                                 "failed to sign ticket tx" } )
        => LET k == ActiveNet.TicketsPerBlock
               n == Len(utxos)
               h == Head(blockConnectedNtfnChan).height
               matured == IF last'.outcome = "ok" /\ h \in DOMAIN maturingVotes
                          THEN maturingVotes[h] ELSE << >>
           IN /\ n >= k
              /\ last'.outcome # "failed to sign ticket tx" =>
                   /\ Len(last'.info.built) = k
                   /\ \A i \in 1..k :
                        last'.info.built[i].in = utxos[n - k + i].outpoint
              /\ utxos' = SubSeq(utxos, 1, n - k) \o matured
              /\ \A i \in (n - k + 1)..n : utxos[i] \notin Range(utxos') ]_vars

\* A purchase that left earlier entries in the pool.
C20_Witness ==
    /\ IsPurchase
    /\ last.outcome = "ok"
    /\ Len(last.pre.utxos) > ActiveNet.TicketsPerBlock
    /\ Len(utxos) >= Len(last.pre.utxos) - ActiveNet.TicketsPerBlock
    /\ utxos # << >>
    /\ utxos[1] = last.pre.utxos[1]

\* C18: with limit L and more than L owned tickets in the draw, the votes
\* built are exactly those of the first L owned tickets, in the order of the
\* draw; the other owned tickets are not voted and stay in the ticket map.
C18_VotesInDrawOrderUpToLimit ==
    ( /\ IsVote
      /\ last.outcome \in { "ok", "unable to send vote tx",
                            "panic: index out of range" }
      /\ Cardinality(OwnedInDraw) > last.pre.limitNbVotes )
    => LET L     == last.pre.limitNbVotes
           draw  == last.info.arg.winningTickets
           built == last.info.built
           rank(j) == Cardinality({ x \in OwnedInDraw : x < j }) + 1
       IN /\ Len(built) = L
          /\ \A j \in OwnedInDraw :
               /\ rank(j) <= L => built[rank(j)].ticket = draw[j]
               /\ rank(j) > L =>
                    /\ \A i \in DOMAIN built : built[i].ticket # draw[j]
                    /\ draw[j] \in DOMAIN tickets

\* Two owned tickets drawn under a limit of one: the first is voted, the
\* second is not.
C18_Witness ==
    /\ IsVote
    /\ last.outcome = "ok"
    /\ last.pre.limitNbVotes = 1
    /\ Cardinality(OwnedInDraw) = 2
    /\ Len(last.info.built) = 1
    /\ last.info.built[1].ticket = last.info.arg.winningTickets[1]
    /\ last.info.arg.winningTickets[2] \in DOMAIN tickets


\* The heights of the events of a queue, from its head to its end.
QueuedHeights(ch, field) == [ k \in 1..Len(ch) |-> ch[k][field] ]

Ascending(hs) == \A j, k \in 1..Len(hs) : j < k => hs[j] < hs[k]

\* C21: neither queue ever holds more than bufferLen (20) events; a producer
\* can deliver its next event exactly when its queue is not full; and the
\* events of a queue stand in it in the order they were enqueued, the worker
\* having handled only events enqueued before every event still queued.
C21_QueuesBoundedFifo ==
    /\ Len(blockConnectedNtfnChan) <= bufferLen
    /\ Len(winningTicketsNtfnChan) <= bufferLen
    /\ bufferLen = 20
    /\ node.bestHeight < MaxDelivered =>
         (ENABLED DeliverBlockConnected <=> Len(blockConnectedNtfnChan) < bufferLen)
    /\ node.drawHeight < MaxDelivered =>
         (ENABLED DeliverWinningTickets <=> Len(winningTicketsNtfnChan) < bufferLen)
    /\ Ascending(QueuedHeights(blockConnectedNtfnChan, "height"))
    /\ Ascending(QueuedHeights(winningTicketsNtfnChan, "blockHeight"))
    /\ IsPurchase =>
         \A k \in 1..Len(blockConnectedNtfnChan) :
            last.info.arg.height < blockConnectedNtfnChan[k].height
    /\ IsVote =>
         \A k \in 1..Len(winningTicketsNtfnChan) :
            last.info.arg.blockHeight < winningTicketsNtfnChan[k].blockHeight

\* The block-connected queue is full with its producer waiting to deliver
\* one more event, while the worker has handled a draw of a block later than
\* the oldest block event still queued.
C21_Witness ==
    /\ Len(blockConnectedNtfnChan) = bufferLen
    /\ node.bestHeight < MaxDelivered
    /\ ~ ENABLED DeliverBlockConnected
    /\ IsVote
    /\ last.info.arg.blockHeight > Head(blockConnectedNtfnChan).height


\* The outpoints of the unlocked funds followed by those of every entry of
\* the maturing-payout schedule.
RECURSIVE ScheduledOutpoints(_, _)
ScheduledOutpoints(mv, hs) ==
    IF hs = {} THEN << >>
    ELSE LET h == CHOOSE x \in hs : \A y \in hs : x <= y
         IN [ k \in DOMAIN mv[h] |-> mv[h][k].outpoint ]
              \o ScheduledOutpoints(mv, hs \ {h})

HeldOutpoints ==
    [ k \in DOMAIN utxos |-> utxos[k].outpoint ]
      \o ScheduledOutpoints(maturingVotes, DOMAIN maturingVotes)

NoDuplicates(s) == \A j, k \in DOMAIN s : j # k => s[j] # s[k]

\* C22: no outpoint occurs twice in the unlocked funds and the maturing
\* payouts taken together, no outpoint is the input of two ticket
\* transactions the wallet has built, and no outpoint a ticket spent is held
\* by the wallet any more.
C22_NoDoubleSpend ==
    /\ NoDuplicates(HeldOutpoints)
    /\ NoDuplicates(last.spent)
    /\ Range(last.spent) \cap Range(HeldOutpoints) = {}

\* A purchase has spent the payout of a vote, after earlier purchases and
\* with funds and maturing payouts still held.
C22_Witness ==
    /\ IsPurchase
    /\ last.info.built # << >>
    /\ \E k \in DOMAIN last.info.built :
         last.info.built[k].in.Hash.of.type = "vote"
    /\ Len(last.spent) > Len(last.info.built)
    /\ utxos # << >>
    /\ \E h \in DOMAIN maturingVotes : maturingVotes[h] # << >>


\* C23: whatever LimitNbVotes calls run beside the handler, the handler
\* never indexes its votes buffer at or past the length it allocated: it
\* holds at most as many votes as the buffer is long and no iteration of its
\* loop fails on the index.
C23_NeverWritesPastBuffer ==
    /\ Len(voteFrame.votes) <= voteFrame.cap
    /\ voteFrame.pc # "panicked"

====
